---- MODULE Spec2Model ----
(***************************************************************************)
(* Model of the Fedora CoreOS Cincinnati graph-builder:                    *)
(*   commons/src/graph.rs           Graph::from_metadata, compute_edges    *)
(*   fcos-graph-builder/src/main.rs gb_serve_graph, AppState               *)
(* policy::filter_deadends, GraphQuery::validate_scope and the Scraper     *)
(* actor live in files that are not part of the sources at hand; they are  *)
(* modelled after the design document.                                     *)
(***************************************************************************)
EXTENDS Integers, Sequences, FiniteSets

VARIABLES
    \* ---- graph assembly (graph.rs) ----
    releases,      \* Vec<metadata::Release>, the release index (oldest first)
    updates,       \* metadata::UpdatesJSON
    scope,         \* GraphScope handed to from_metadata
    phase,         \* "input" before from_metadata ran, "built" after
    nodes,         \* `nodes` of from_metadata (graph.rs:28-87), before filtering
    rawEdges,      \* result of compute_edges(&nodes) (graph.rs:90)
    graph,         \* the Graph returned by from_metadata (graph.rs:96)
    \* ---- service (main.rs, scraper) ----
    scope_filter,  \* AppState.scope_filter
    worker,        \* per configured scope: the scraper's state, "Idle" | "Fetching"
    cached,        \* per configured scope: the scraper's current Graph cell
    building,      \* per configured scope: the Graph under construction while Fetching
    published,     \* per configured scope: Some(Graph of the last successful scrape), None before it
    scrapes,       \* per configured scope: "none" | "ok" | "failed", outcome of the last cycle
    before,        \* per configured scope: the cached Graph when the last cycle began
    pc,            \* per request handler: position inside gb_serve_graph
    query,         \* per request handler: the GraphQuery being served
    reply,         \* per request handler: the answer of GetCachedGraph
    atReply,       \* per request handler: `published[scope]` at the instant of the answer
    response       \* per request handler: the HttpResponse produced

asmVars == <<releases, updates, scope, phase, nodes, rawEdges, graph>>
svcVars == <<scope_filter, worker, cached, building, published, scrapes, before,
             pc, query, reply, atReply, response>>
vars == <<asmVars, svcVars>>

----------------------------------------------------------------------------
(* Bounds *)

\* longest release list of the edge-computation specification
MaxNodes == 4
\* longest release list of the full-assembly specification
MaxReleases == 3
\* longest release list a scrape of the service specification fetches
MaxFetched == 2

----------------------------------------------------------------------------
(* Option<T> *)

None == [some |-> FALSE]
Some(v) == [some |-> TRUE, val |-> v]

(* Metadata keys (commons::metadata constants) *)
AGE_INDEX == "age_index"
SCHEME == "scheme"
DEADEND == "deadend"
DEADEND_REASON == "deadend_reason"
BARRIER == "barrier"
BARRIER_REASON == "barrier_reason"
ROLLOUT == "rollout"
START_EPOCH == "start_epoch"
START_VALUE == "start_value"
DURATION == "duration"

----------------------------------------------------------------------------
(* Conversions *)

Digit == <<"0", "1", "2", "3", "4", "5", "6", "7", "8", "9">>

RECURSIVE to_string(_)
\* usize::to_string / u64::to_string: decimal digits, no padding
to_string(n) ==
    IF n < 10 THEN Digit[n + 1]
    ELSE to_string(n \div 10) \o Digit[(n % 10) + 1]

\* bool::to_string
bool_to_string(b) == IF b THEN "true" ELSE "false"

\* f64::to_string of a value held as whole and tenths
float_to_string(f) ==
    IF f.tenths = 0 THEN to_string(f.whole)
    ELSE to_string(f.whole) \o "." \o to_string(f.tenths)

\* HashMap::insert
Insert(m, k, v) == [x \in (DOMAIN m) \cup {k} |-> IF x = k THEN v ELSE m[x]]

\* HashMap::contains_key
ContainsKey(m, k) == k \in DOMAIN m

EmptyMap == [x \in {} |-> ""]

----------------------------------------------------------------------------
(* graph.rs *)

\* Graph::default()
EmptyGraph == [nodes |-> <<>>, edges |-> <<>>]

RECURSIVE PickCommit_any_checksum(_, _, _)
\* PickCommit without the is_empty() test of graph.rs:60
PickCommit_any_checksum(commits, sc, acc) ==
    IF commits = <<>> THEN acc
    ELSE LET commit == Head(commits) IN
         IF commit.architecture # sc.basearch
         THEN PickCommit_any_checksum(Tail(commits), sc, acc)
         ELSE PickCommit_any_checksum(Tail(commits), sc,
                  <<TRUE, [acc[2] EXCEPT !.payload = commit.checksum,
                                         !.metadata = Insert(@, SCHEME, "checksum")]>>)

RECURSIVE PickCommit(_, _, _)
\* graph.rs:59-68: the loop over entry.commits; acc = <<has_basearch, current>>
PickCommit(commits, sc, acc) ==
    IF commits = <<>> THEN acc
    ELSE LET commit == Head(commits) IN
         IF commit.architecture # sc.basearch \/ commit.checksum = ""
         THEN PickCommit(Tail(commits), sc, acc)
         ELSE PickCommit(Tail(commits), sc,
                  <<TRUE, [acc[2] EXCEPT !.payload = commit.checksum,
                                         !.metadata = Insert(@, SCHEME, "checksum")]>>)

RECURSIVE PickOci(_, _, _)
\* graph.rs:42-53: the loop over oci_images
PickOci(images, sc, acc) ==
    IF images = <<>> THEN acc
    ELSE LET oci_image == Head(images) IN
         IF oci_image.architecture # sc.basearch \/ oci_image.digest_ref = ""
         THEN PickOci(Tail(images), sc, acc)
         ELSE PickOci(Tail(images), sc,
                  <<TRUE, [acc[2] EXCEPT !.payload = oci_image.digest_ref,
                                         !.metadata = Insert(@, SCHEME, "oci")]>>)

RECURSIVE inject_deadend_reason(_, _)
\* graph.rs:175-196, over the entries of updates.releases
inject_deadend_reason(entries, release) ==
    IF entries = <<>> THEN release
    ELSE LET entry == Head(entries) IN
         IF entry.version # release.version
         THEN inject_deadend_reason(Tail(entries), release)
         ELSE IF entry.metadata.deadend.some
         THEN LET reason == IF entry.metadata.deadend.val.reason = ""
                            THEN "generic"
                            ELSE entry.metadata.deadend.val.reason
              IN inject_deadend_reason(Tail(entries),
                     [release EXCEPT !.metadata =
                         Insert(Insert(@, DEADEND, bool_to_string(TRUE)),
                                DEADEND_REASON, reason)])
         ELSE inject_deadend_reason(Tail(entries), release)

RECURSIVE inject_barrier_reason(_, _)
\* graph.rs:152-173
inject_barrier_reason(entries, release) ==
    IF entries = <<>> THEN release
    ELSE LET entry == Head(entries) IN
         IF entry.version # release.version
         THEN inject_barrier_reason(Tail(entries), release)
         ELSE IF entry.metadata.barrier.some
         THEN LET reason == IF entry.metadata.barrier.val.reason = ""
                            THEN "generic"
                            ELSE entry.metadata.barrier.val.reason
              IN inject_barrier_reason(Tail(entries),
                     [release EXCEPT !.metadata =
                         Insert(Insert(@, BARRIER, bool_to_string(TRUE)),
                                BARRIER_REASON, reason)])
         ELSE inject_barrier_reason(Tail(entries), release)

\* graph.rs:205-222: the inserts for one rollout directive
RolloutParams(m, rollout) ==
    LET m1 == Insert(m, ROLLOUT, bool_to_string(TRUE))
        m2 == IF rollout.start_epoch.some
              THEN Insert(m1, START_EPOCH, to_string(rollout.start_epoch.val))
              ELSE m1
        m3 == IF rollout.start_percentage.some
              THEN Insert(m2, START_VALUE, float_to_string(rollout.start_percentage.val))
              ELSE m2
    IN IF rollout.duration_minutes.some
       THEN Insert(m3, DURATION, to_string(rollout.duration_minutes.val))
       ELSE m3

RECURSIVE inject_throttling_params(_, _)
\* graph.rs:198-225
inject_throttling_params(entries, release) ==
    IF entries = <<>> THEN release
    ELSE LET entry == Head(entries) IN
         IF entry.version # release.version
         THEN inject_throttling_params(Tail(entries), release)
         ELSE IF entry.metadata.rollout.some
         THEN inject_throttling_params(Tail(entries),
                  [release EXCEPT !.metadata = RolloutParams(@, entry.metadata.rollout.val)])
         ELSE inject_throttling_params(Tail(entries), release)

\* graph.rs:31-86: the filter_map closure; None when the release is skipped
MakeNode(age_index, entry, upd, sc) ==
    LET current == [version |-> entry.version,
                    payload |-> "",
                    metadata |-> Insert(EmptyMap, AGE_INDEX, to_string(age_index))]
        picked == IF sc.oci
                  THEN IF entry.oci_images.some
                       THEN Some(PickOci(entry.oci_images.val, sc, <<FALSE, current>>))
                       ELSE None
                  ELSE Some(PickCommit(entry.commits, sc, <<FALSE, current>>))
    IN IF ~picked.some THEN None
       ELSE IF ~picked.val[1] THEN None
       ELSE Some(inject_throttling_params(upd.releases,
                     inject_barrier_reason(upd.releases,
                         inject_deadend_reason(upd.releases, picked.val[2]))))

RECURSIVE CollectNodes_counting_kept(_, _, _, _)
\* CollectNodes with enumerate() placed after filter_map: only kept releases count
CollectNodes_counting_kept(rels, age_index, upd, sc) ==
    IF rels = <<>> THEN <<>>
    ELSE LET n == MakeNode(age_index, Head(rels), upd, sc)
         IN IF n.some
            THEN <<n.val>> \o CollectNodes_counting_kept(Tail(rels), age_index + 1, upd, sc)
            ELSE CollectNodes_counting_kept(Tail(rels), age_index, upd, sc)

RECURSIVE CollectNodes(_, _, _, _)
\* graph.rs:28-87: enumerate() counts the releases from 0, filter_map keeps the Some
CollectNodes(rels, age_index, upd, sc) ==
    IF rels = <<>> THEN <<>>
    ELSE LET n == MakeNode(age_index, Head(rels), upd, sc)
             rest == CollectNodes(Tail(rels), age_index + 1, upd, sc)
         IN IF n.some THEN <<n.val>> \o rest ELSE rest

BuildNodes(rels, upd, sc) == CollectNodes(rels, 0, upd, sc)

\* graph.rs:105-114: the indices (from 0) whose metadata holds `key`
Marked(ns, key) == {i \in 0..(Len(ns) - 1) : ContainsKey(ns[i + 1].metadata, key)}

\* the largest element of a non-empty set of indices (BTreeSet range .next_back())
MaxOf(S) == CHOOSE x \in S : \A y \in S : y <= x

\* PreviousBarrier with Bound::Included(age) in place of Bound::Excluded(age)
PreviousBarrier_inclusive(barriers, age) ==
    LET below == {b \in barriers : b <= age}
    IN IF below = {} THEN 0 ELSE MaxOf(below)

\* graph.rs:124-128: the nearest barrier strictly below `age`, or 0
PreviousBarrier(barriers, age) ==
    LET below == {b \in barriers : b < age}
    IN IF below = {} THEN 0 ELSE MaxOf(below)

\* PushRange over lo..=hi in place of lo..hi
PushRange_inclusive(lo, hi, target) ==
    IF hi >= lo THEN [k \in 1..(hi - lo + 1) |-> <<lo + k - 1, target>>] ELSE <<>>

\* `for i in lo..hi { edges.push((i, target)) }` (graph.rs:130-132, 142-144)
PushRange(lo, hi, target) ==
    IF hi > lo THEN [k \in 1..(hi - lo) |-> <<lo + k - 1, target>>] ELSE <<>>

RECURSIVE RolloutEdges(_, _, _)
\* graph.rs:116-133: the pass over the indices in reverse; `next` counts the
\* indices still to visit, the one visited is next - 1
RolloutEdges(next, rollouts, barriers) ==
    IF next = 0 THEN <<>>
    ELSE LET age == next - 1 IN
         IF age \notin rollouts
         THEN RolloutEdges(next - 1, rollouts, barriers)
         ELSE PushRange(PreviousBarrier(barriers, age), age, age)
                  \o RolloutEdges(next - 1, rollouts, barriers)

\* the smallest element of a non-empty set (BTreeSet iterates ascending)
MinOf(S) == CHOOSE x \in S : \A y \in S : x <= y

RECURSIVE BarrierEdges_start_kept(_, _, _)
\* BarrierEdges with `start = target` moved into the else branch of graph.rs:141
BarrierEdges_start_kept(todo, start, rollouts) ==
    IF todo = {} THEN <<>>
    ELSE LET target == MinOf(todo) IN
         IF target \in rollouts
         THEN BarrierEdges_start_kept(todo \ {target}, start, rollouts)
         ELSE PushRange(start, target, target)
                  \o BarrierEdges_start_kept(todo \ {target}, target, rollouts)

RECURSIVE BarrierEdges(_, _, _)
\* graph.rs:135-147: the pass over the barriers in ascending order
BarrierEdges(todo, start, rollouts) ==
    IF todo = {} THEN <<>>
    ELSE LET target == MinOf(todo) IN
         (IF target \in rollouts THEN <<>> ELSE PushRange(start, target, target))
             \o BarrierEdges(todo \ {target}, target, rollouts)

\* compute_edges that also links each unmarked node to the nodes back to the
\* previous barrier
compute_edges_linking_plain(ns) ==
    LET rollouts == Marked(ns, ROLLOUT)
        barriers == Marked(ns, BARRIER)
        plain == (0..(Len(ns) - 1)) \ barriers
    IN RolloutEdges(Len(ns), rollouts \cup plain, barriers)
           \o BarrierEdges(barriers, 0, rollouts)

\* graph.rs:100-150; the only exit is Ok(edges)
compute_edges(ns) ==
    LET rollouts == Marked(ns, ROLLOUT)
        barriers == Marked(ns, BARRIER)
    IN RolloutEdges(Len(ns), rollouts, barriers) \o BarrierEdges(barriers, 0, rollouts)

----------------------------------------------------------------------------
(* policy::filter_deadends, after the design document's Deadend Filter *)

IsDeadend(node) ==
    ContainsKey(node.metadata, DEADEND) /\ node.metadata[DEADEND] = "true"

\* the indices (from 0) of the nodes that stay
Kept(g) == {i \in 0..(Len(g.nodes) - 1) : ~IsDeadend(g.nodes[i + 1])}

\* the new index of a node that stays: the kept nodes below it
Renumber(g, i) == Cardinality({j \in Kept(g) : j < i})

RECURSIVE KeepNodes(_)
KeepNodes(ns) ==
    IF ns = <<>> THEN <<>>
    ELSE IF IsDeadend(Head(ns)) THEN KeepNodes(Tail(ns))
    ELSE <<Head(ns)>> \o KeepNodes(Tail(ns))

RECURSIVE KeepEdges(_, _)
KeepEdges(g, es) ==
    IF es = <<>> THEN <<>>
    ELSE LET e == Head(es) IN
         IF e[1] \in Kept(g) /\ e[2] \in Kept(g)
         THEN <<<<Renumber(g, e[1]), Renumber(g, e[2])>>>> \o KeepEdges(g, Tail(es))
         ELSE KeepEdges(g, Tail(es))

filter_deadends(g) == [nodes |-> KeepNodes(g.nodes), edges |-> KeepEdges(g, g.edges)]

----------------------------------------------------------------------------

\* FinishGraph without the filter_deadends call of graph.rs:94
FinishGraph_unfiltered(ns) == [nodes |-> ns, edges |-> compute_edges(ns)]

\* graph.rs:89-96: edges, Graph { nodes, edges }, filter_deadends
FinishGraph(ns) == filter_deadends([nodes |-> ns, edges |-> compute_edges(ns)])

\* graph.rs:23-97; `?` at graph.rs:90 never takes the error exit
from_metadata(rels, upd, sc) == FinishGraph(BuildNodes(rels, upd, sc))

----------------------------------------------------------------------------
(* Inputs: release index and updates document *)

VersionOf(i) == "v" \o to_string(i)

\* The payload references a release may carry
Shapes == {"commit", "oci_only", "commit_only", "bare"}

MkRelease(i, shape) ==
    [version |-> VersionOf(i),
     commits |->
        CASE shape = "commit" ->
                 <<[architecture |-> "x86_64", checksum |-> "c0"]>>
          [] shape = "oci_only" ->
                 <<[architecture |-> "aarch64", checksum |-> "ca"],
                   [architecture |-> "x86_64", checksum |-> ""]>>
          [] shape = "commit_only" ->
                 <<[architecture |-> "x86_64", checksum |-> "c1"],
                   [architecture |-> "x86_64", checksum |-> "c2"]>>
          [] OTHER -> <<>>,
     oci_images |->
        CASE shape = "commit" -> None
          [] shape = "oci_only" ->
                 Some(<<[architecture |-> "x86_64", digest_ref |-> "d0"]>>)
          [] shape = "commit_only" ->
                 Some(<<[architecture |-> "x86_64", digest_ref |-> ""],
                        [architecture |-> "aarch64", digest_ref |-> "da"]>>)
          [] OTHER -> Some(<<>>)]

RolloutBare == [start_epoch |-> None, start_percentage |-> None, duration_minutes |-> None]
RolloutTimed ==
    [start_epoch |-> Some(15), start_percentage |-> Some([whole |-> 0, tenths |-> 5]),
     duration_minutes |-> Some(120)]

\* One entry of updates.releases: deadend d, barrier b, rollout r (an Option)
MkEntry(i, pol) ==
    [version |-> VersionOf(i),
     metadata |->
        [deadend |-> IF pol.d THEN Some([reason |-> "eol"]) ELSE None,
         barrier |-> IF pol.b THEN Some([reason |-> ""]) ELSE None,
         rollout |-> pol.r]]

\* the markings of the full-assembly specification
AssemblyPolicies ==
    {[d |-> FALSE, b |-> FALSE, r |-> None],
     [d |-> TRUE, b |-> FALSE, r |-> None],
     [d |-> FALSE, b |-> TRUE, r |-> None],
     [d |-> FALSE, b |-> FALSE, r |-> Some(RolloutBare)],
     [d |-> TRUE, b |-> TRUE, r |-> Some(RolloutTimed)]}

\* the markings of the edge-computation specification
EdgePolicies == [d : BOOLEAN, b : BOOLEAN, r : {None, Some(RolloutTimed)}]

\* the markings of the releases a scrape of the service specification fetches
FetchedPolicies ==
    {[d |-> TRUE, b |-> FALSE, r |-> None],
     [d |-> FALSE, b |-> FALSE, r |-> Some(RolloutBare)]}

MkReleases(n, sh) == [i \in 1..n |-> MkRelease(i - 1, sh[i])]
MkUpdates(n, pol) == [releases |-> [i \in 1..n |-> MkEntry(i - 1, pol[i])]]

\* main.rs:77-81 builds the x86_64 scopes; aarch64 is the TODO of main.rs:78
Scopes == [basearch : {"x86_64", "aarch64"}, stream : {"stable"}, oci : BOOLEAN]

----------------------------------------------------------------------------
(* Service: AppState, request handlers, scrapers *)

Handlers == {"h1", "h2"}

\* main.rs:75-84: one scraper per configured stream, basearch x86_64
ConfiguredScopes == {[basearch |-> "x86_64", stream |-> "stable", oci |-> FALSE]}

\* an allow-list a deployment may install in AppState.scope_filter
AllowedScopes ==
    {[basearch |-> "x86_64", stream |-> "stable", oci |-> FALSE],
     [basearch |-> "x86_64", stream |-> "testing", oci |-> FALSE]}

Queries ==
    {[basearch |-> "x86_64", stream |-> "stable", oci |-> FALSE],
     [basearch |-> "x86_64", stream |-> "testing", oci |-> FALSE],
     [basearch |-> "aarch64", stream |-> "stable", oci |-> FALSE]}

NoQuery == [basearch |-> "", stream |-> "", oci |-> FALSE]
NoResponse == [status |-> 0]

\* GraphQuery::validate_scope: Err when an allow-list is set and lacks the scope
validate_scope(q, filter) ==
    LET sc == [basearch |-> q.basearch, stream |-> q.stream, oci |-> q.oci]
    IN IF filter.some /\ sc \notin filter.val
       THEN [ok |-> FALSE]
       ELSE [ok |-> TRUE, val |-> sc]

SvcInit ==
    /\ worker = [s \in ConfiguredScopes |-> "Idle"]
    /\ cached = [s \in ConfiguredScopes |-> EmptyGraph]
    /\ building = [s \in ConfiguredScopes |-> EmptyGraph]
    /\ published = [s \in ConfiguredScopes |-> None]
    /\ scrapes = [s \in ConfiguredScopes |-> "none"]
    /\ before = [s \in ConfiguredScopes |-> EmptyGraph]
    /\ pc = [h \in Handlers |-> "idle"]
    /\ query = [h \in Handlers |-> NoQuery]
    /\ reply = [h \in Handlers |-> EmptyGraph]
    /\ atReply = [h \in Handlers |-> None]
    /\ response = [h \in Handlers |-> NoResponse]

AsmIdle ==
    /\ releases = <<>>
    /\ updates = [releases |-> <<>>]
    /\ scope = [basearch |-> "x86_64", stream |-> "stable", oci |-> FALSE]
    /\ phase = "input"
    /\ nodes = <<>>
    /\ rawEdges = <<>>
    /\ graph = EmptyGraph

----------------------------------------------------------------------------
(* Graph assembly as a state machine *)

\* Graph::from_metadata (graph.rs:23-97) on the chosen input
Assemble ==
    /\ phase = "input"
    /\ phase' = "built"
    /\ nodes' = BuildNodes(releases, updates, scope)
    /\ rawEdges' = compute_edges(nodes')
    /\ graph' = from_metadata(releases, updates, scope)
    /\ UNCHANGED <<releases, updates, scope, svcVars>>

\* every release list, updates document and scope within the bounds
InitAssembly ==
    /\ \E n \in 0..MaxReleases :
          \E sh \in [1..n -> Shapes], pol \in [1..n -> AssemblyPolicies] :
              /\ releases = MkReleases(n, sh)
              /\ updates = MkUpdates(n, pol)
    /\ scope \in Scopes
    /\ phase = "input" /\ nodes = <<>> /\ rawEdges = <<>> /\ graph = EmptyGraph
    /\ scope_filter = None
    /\ SvcInit

\* scope-eligible releases under every deadend/barrier/rollout marking
InitEdges ==
    /\ \E n \in 0..MaxNodes :
          \E pol \in [1..n -> EdgePolicies] :
              /\ releases = MkReleases(n, [i \in 1..n |-> "commit"])
              /\ updates = MkUpdates(n, pol)
    /\ scope = [basearch |-> "x86_64", stream |-> "stable", oci |-> FALSE]
    /\ phase = "input" /\ nodes = <<>> /\ rawEdges = <<>> /\ graph = EmptyGraph
    /\ scope_filter = None
    /\ SvcInit

NextAssembly == Assemble

SpecAssembly == InitAssembly /\ [][NextAssembly]_vars
SpecEdges == InitEdges /\ [][NextAssembly]_vars

----------------------------------------------------------------------------
(* The service as a state machine *)

\* Request without the Err arm of main.rs:138-141: the scope is used as given
Request_unvalidated(h) ==
    /\ pc[h] = "idle"
    /\ \E q \in Queries :
          /\ query' = [query EXCEPT ![h] = q]
          /\ IF q \notin ConfiguredScopes
             THEN /\ pc' = [pc EXCEPT ![h] = "done"]
                  /\ response' = [response EXCEPT ![h] = [status |-> 404]]
             ELSE /\ pc' = [pc EXCEPT ![h] = "sent"]
                  /\ response' = response
    /\ UNCHANGED <<asmVars, scope_filter, worker, cached, building, published,
                   scrapes, before, reply, atReply>>

\* gb_serve_graph up to its await (main.rs:133-157): validate the scope,
\* look the scraper up, send GetCachedGraph
Request(h) ==
    /\ pc[h] = "idle"
    /\ \E q \in Queries :
          LET v == validate_scope(q, scope_filter) IN
          /\ query' = [query EXCEPT ![h] = q]
          /\ IF ~v.ok
             THEN \* main.rs:138-141
                  /\ pc' = [pc EXCEPT ![h] = "done"]
                  /\ response' = [response EXCEPT ![h] = [status |-> 400]]
             ELSE IF v.val \notin ConfiguredScopes
             THEN \* main.rs:146-153
                  /\ pc' = [pc EXCEPT ![h] = "done"]
                  /\ response' = [response EXCEPT ![h] = [status |-> 404]]
             ELSE \* main.rs:157, the message is in the scraper's mailbox
                  /\ pc' = [pc EXCEPT ![h] = "sent"]
                  /\ response' = response
    /\ UNCHANGED <<asmVars, scope_filter, worker, cached, building, published,
                   scrapes, before, reply, atReply>>

\* CachedGraphOf that hands out the Graph under construction
CachedGraphOf_building(s) == IF worker[s] = "Assembling" THEN building[s] ELSE cached[s]

\* the Graph the scraper answers GetCachedGraph with
CachedGraphOf(s) == cached[s]

\* the scraper handles GetCachedGraph: it answers with the Graph it holds
GetCachedGraph(h) ==
    /\ pc[h] = "sent"
    /\ pc' = [pc EXCEPT ![h] = "replied"]
    /\ reply' = [reply EXCEPT ![h] = CachedGraphOf(query[h])]
    /\ atReply' = [atReply EXCEPT ![h] = published[query[h]]]
    /\ UNCHANGED <<asmVars, scope_filter, worker, cached, building, published,
                   scrapes, before, query, response>>

\* the body of the 200 answer: main.rs:159-165, the JSON text of final_graph
\* is held as the Graph it renders
OkResponse(cached_graph) == [status |-> 200, graph |-> filter_deadends(cached_graph)]

\* gb_serve_graph after its await (main.rs:157-166)
Respond(h) ==
    /\ pc[h] = "replied"
    /\ pc' = [pc EXCEPT ![h] = "done"]
    /\ response' = [response EXCEPT ![h] = OkResponse(reply[h])]
    /\ UNCHANGED <<asmVars, scope_filter, worker, cached, building, published,
                   scrapes, before, query, reply, atReply>>

\* the handler has returned; the next request may come in
Finish(h) ==
    /\ pc[h] = "done"
    /\ pc' = [pc EXCEPT ![h] = "idle"]
    /\ query' = [query EXCEPT ![h] = NoQuery]
    /\ reply' = [reply EXCEPT ![h] = EmptyGraph]
    /\ atReply' = [atReply EXCEPT ![h] = None]
    /\ response' = [response EXCEPT ![h] = NoResponse]
    /\ UNCHANGED <<asmVars, scope_filter, worker, cached, building, published,
                   scrapes, before>>

\* the refresh timer fires: Idle -> Fetching
Tick(s) ==
    /\ worker[s] = "Idle"
    /\ worker' = [worker EXCEPT ![s] = "Fetching"]
    /\ before' = [before EXCEPT ![s] = cached[s]]
    /\ scrapes' = [scrapes EXCEPT ![s] = "none"]
    /\ UNCHANGED <<asmVars, scope_filter, cached, building, published,
                   pc, query, reply, atReply, response>>

\* AfterFailure that empties the cache
AfterFailure_cleared(s) == EmptyGraph

\* the cached Graph after a failed cycle
AfterFailure(s) == cached[s]

\* the fetch fails or times out: the cached Graph stays, back to Idle
FetchFailed(s) ==
    /\ worker[s] = "Fetching"
    /\ worker' = [worker EXCEPT ![s] = "Idle"]
    /\ cached' = [cached EXCEPT ![s] = AfterFailure(s)]
    /\ scrapes' = [scrapes EXCEPT ![s] = "failed"]
    /\ UNCHANGED <<asmVars, scope_filter, building, published, before,
                   pc, query, reply, atReply, response>>

\* the fetch delivers a release index and an updates document; assembly has
\* collected the nodes (graph.rs:28-87) and not yet the edges
Fetched(s) ==
    /\ worker[s] = "Fetching"
    /\ \E n \in 0..MaxFetched :
          \E pol \in [1..n -> FetchedPolicies] :
              building' = [building EXCEPT ![s] =
                  [nodes |-> BuildNodes(MkReleases(n, [i \in 1..n |-> "commit"]),
                                        MkUpdates(n, pol), s),
                   edges |-> <<>>]]
    /\ worker' = [worker EXCEPT ![s] = "Assembling"]
    /\ UNCHANGED <<asmVars, scope_filter, cached, published, scrapes, before,
                   pc, query, reply, atReply, response>>

\* assembly ends (graph.rs:89-96) and the scraper swaps its Graph: -> Idle
Publish(s) ==
    /\ worker[s] = "Assembling"
    /\ worker' = [worker EXCEPT ![s] = "Idle"]
    /\ cached' = [cached EXCEPT ![s] = FinishGraph(building[s].nodes)]
    /\ published' = [published EXCEPT ![s] = Some(FinishGraph(building[s].nodes))]
    /\ building' = [building EXCEPT ![s] = EmptyGraph]
    /\ scrapes' = [scrapes EXCEPT ![s] = "ok"]
    /\ UNCHANGED <<asmVars, scope_filter, before,
                   pc, query, reply, atReply, response>>

\* main.rs:87-90 sets no allow-list; a deployment with one is modelled too
Init ==
    /\ AsmIdle
    /\ scope_filter \in {None, Some(AllowedScopes)}
    /\ SvcInit

Next ==
    \/ \E h \in Handlers : Request(h)
    \/ \E h \in Handlers : GetCachedGraph(h)
    \/ \E h \in Handlers : Respond(h)
    \/ \E h \in Handlers : Finish(h)
    \/ \E s \in ConfiguredScopes : Tick(s)
    \/ \E s \in ConfiguredScopes : FetchFailed(s)
    \/ \E s \in ConfiguredScopes : Fetched(s)
    \/ \E s \in ConfiguredScopes : Publish(s)

Spec == Init /\ [][Next]_vars

----------------------------------------------------------------------------
(* Properties of the edge computation *)

EdgeSet(es) == {es[k] : k \in 1..Len(es)}

\* indices (from 0) of the barrier-marked and rollout-marked nodes
BarrierIdx == {i \in 0..(Len(nodes) - 1) : BARRIER \in DOMAIN nodes[i + 1].metadata}
RolloutIdx == {i \in 0..(Len(nodes) - 1) : ROLLOUT \in DOMAIN nodes[i + 1].metadata}

\* the nearest barrier-marked index strictly below t, or 0
NearestBarrierBelow(t) ==
    IF \E b \in BarrierIdx : b < t
    THEN CHOOSE b \in BarrierIdx : b < t /\ \A c \in BarrierIdx : c < t => c <= b
    ELSE 0

\* the sources of the edges that end in t
SourcesOf(t) == {e[1] : e \in {x \in EdgeSet(rawEdges) : x[2] = t}}

\* C1: every edge (from, to) of compute_edges has from < to and both endpoints
\* are indices of the node sequence: no self-edge, no cycle.
C1_EdgesForwardAndInRange ==
    phase = "built" =>
        \A k \in 1..Len(rawEdges) :
            /\ rawEdges[k][1] < rawEdges[k][2]
            /\ rawEdges[k][1] \in 0..(Len(nodes) - 1)
            /\ rawEdges[k][2] \in 0..(Len(nodes) - 1)

C1_Witness ==
    /\ phase = "built"
    /\ Len(nodes) = MaxNodes
    /\ BarrierIdx \cap RolloutIdx # {}
    /\ BarrierIdx \ RolloutIdx # {}
    /\ Len(rawEdges) >= 4

\* C2: a barrier-marked, not rollout-marked index b, with p the nearest barrier
\* below it (or 0), is the target of exactly the edges (i, b) with p <= i < b.
C2_PlainBarrierSources ==
    phase = "built" =>
        \A b \in BarrierIdx \ RolloutIdx :
            LET p == NearestBarrierBelow(b) IN
            /\ \A i \in p..(b - 1) : <<i, b>> \in EdgeSet(rawEdges)
            /\ \A i \in 0..(p - 1) : <<i, b>> \notin EdgeSet(rawEdges)

C2_Witness ==
    /\ phase = "built"
    /\ \E b \in BarrierIdx \ RolloutIdx :
          /\ NearestBarrierBelow(b) \in BarrierIdx \cap RolloutIdx
          /\ NearestBarrierBelow(b) > 0
          /\ b - NearestBarrierBelow(b) >= 2
          /\ SourcesOf(b) = NearestBarrierBelow(b)..(b - 1)

\* C3: a rollout-marked index r (barrier-marked or not), with p the nearest
\* barrier strictly below it (or 0), is the target of every edge (i, r) with
\* p <= i < r.
C3_RolloutSources ==
    phase = "built" =>
        \A r \in RolloutIdx :
            \A i \in NearestBarrierBelow(r)..(r - 1) : <<i, r>> \in EdgeSet(rawEdges)

C3_Witness ==
    /\ phase = "built"
    /\ \E r \in RolloutIdx \cap BarrierIdx :
          /\ NearestBarrierBelow(r) > 0
          /\ r - NearestBarrierBelow(r) >= 2
          /\ \A i \in NearestBarrierBelow(r)..(r - 1) : <<i, r>> \in EdgeSet(rawEdges)

\* The scenario of C4: four scope-eligible releases A, B, C, D without dead
\* ends, C barrier-marked only, A, B and D plain, assembled.
C4_Scenario ==
    /\ phase = "built"
    /\ Len(releases) = 4
    /\ Len(nodes) = 4
    /\ \A i \in 1..4 : ~updates.releases[i].metadata.deadend.some
    /\ \A i \in 1..4 : updates.releases[i].metadata.barrier.some <=> i = 3
    /\ \A i \in 1..4 : ~updates.releases[i].metadata.rollout.some

\* C4 as stated: in the scenario the edge set is {(0,2),(1,2),(2,3)}, the
\* plain newest node D receiving an edge from the barrier C.
C4_AsStated ==
    C4_Scenario => EdgeSet(graph.edges) = {<<0, 2>>, <<1, 2>>, <<2, 3>>}

\* C4 amended: in the scenario the edge set is {(0,2),(1,2)}; the plain
\* newest node D is the target of no edge.
C4_PlainNodeIsNoTarget ==
    C4_Scenario =>
        /\ EdgeSet(graph.edges) = {<<0, 2>>, <<1, 2>>}
        /\ Len(graph.edges) = 2
        /\ rawEdges = graph.edges

C4_Witness ==
    /\ C4_Scenario
    /\ Len(graph.nodes) = 4
    /\ <<1, 2>> \in EdgeSet(graph.edges)

----------------------------------------------------------------------------
(* Properties of the assembled Graph *)

\* position (from 0) in the release list of the release with version v
ReleaseIndex(v) == (CHOOSE i \in 1..Len(releases) : releases[i].version = v) - 1

\* C5 as stated: each node's age_index is the node's position in the Graph.
C5_AsStated ==
    phase = "built" =>
        \A k \in 1..Len(graph.nodes) :
            graph.nodes[k].metadata[AGE_INDEX] = to_string(k - 1)

\* C5 amended: each node's age_index is the position of its release in the
\* release list handed to from_metadata; it is the node's position in the
\* Graph when every older release is a node of the Graph too.
C5_AgeIndexIsReleaseIndex ==
    phase = "built" =>
        \A k \in 1..Len(graph.nodes) :
            LET node == graph.nodes[k] IN
            /\ \E i \in 1..Len(releases) : releases[i].version = node.version
            /\ node.metadata[AGE_INDEX] = to_string(ReleaseIndex(node.version))
            /\ (\A i \in 1..ReleaseIndex(node.version) :
                    \E j \in 1..Len(graph.nodes) :
                        graph.nodes[j].version = releases[i].version)
                   => node.metadata[AGE_INDEX] = to_string(k - 1)

C5_Witness ==
    /\ phase = "built"
    /\ Len(releases) = 3
    /\ Len(nodes) = 2
    /\ Len(graph.nodes) = 2
    /\ graph.nodes[1].metadata[AGE_INDEX] = "1"
    /\ graph.nodes[2].metadata[AGE_INDEX] = "2"

\* whether release rel carries a non-empty payload reference for scope sc
HasPayloadFor(rel, sc) ==
    IF sc.oci
    THEN /\ rel.oci_images.some
         /\ \E k \in 1..Len(rel.oci_images.val) :
               /\ rel.oci_images.val[k].architecture = sc.basearch
               /\ rel.oci_images.val[k].digest_ref # ""
    ELSE \E k \in 1..Len(rel.commits) :
               /\ rel.commits[k].architecture = sc.basearch
               /\ rel.commits[k].checksum # ""

\* C10: a release without a non-empty payload reference for the scope's
\* architecture and scheme is no node of the Graph, and every node's payload
\* is non-empty.
C10_OnlyEligibleReleases ==
    phase = "built" =>
        /\ \A i \in 1..Len(releases) :
              ~HasPayloadFor(releases[i], scope) =>
                  \A k \in 1..Len(graph.nodes) :
                      graph.nodes[k].version # releases[i].version
        /\ \A k \in 1..Len(graph.nodes) : graph.nodes[k].payload # ""

C10_Witness ==
    /\ phase = "built"
    /\ scope.oci
    /\ Len(releases) = 3
    /\ releases[1].oci_images = None
    /\ ~HasPayloadFor(releases[2], scope)
    /\ releases[2].oci_images.some
    /\ Len(releases[2].oci_images.val) = 2
    /\ Len(graph.nodes) = 1
    /\ graph.nodes[1].version = releases[3].version

\* C9: filtering dead ends is idempotent, so the pass made when a query is
\* answered leaves a Graph that was filtered when it was built as it is.
C9_FilterIdempotent ==
    phase = "built" =>
        LET g == [nodes |-> nodes, edges |-> rawEdges] IN
        /\ filter_deadends(filter_deadends(g)) = filter_deadends(g)
        /\ filter_deadends(graph) = graph

C9_Witness ==
    /\ phase = "built"
    /\ Len(nodes) = 4
    /\ Len(graph.nodes) = 2
    /\ Len(rawEdges) > Len(graph.edges)
    /\ Len(graph.edges) > 0
    /\ graph.edges # SubSeq(rawEdges, 1, Len(graph.edges))

----------------------------------------------------------------------------
(* Properties of the service *)

\* C6: the answer to GetCachedGraph is the Graph published by the most recent
\* successful scrape of the scope, the empty Graph before the first one; it
\* is never the Graph under construction.
C6_ReplyIsLastPublished ==
    \A h \in Handlers :
        pc[h] = "replied" =>
            reply[h] = IF atReply[h].some THEN atReply[h].val ELSE EmptyGraph

C6_Witness ==
    \E h \in Handlers, s \in ConfiguredScopes :
        /\ pc[h] = "replied"
        /\ query[h] = s
        /\ worker[s] = "Assembling"
        /\ building[s].nodes # <<>>
        /\ reply[h] # EmptyGraph
        /\ reply[h].nodes # building[s].nodes
        /\ reply[h] = published[s].val

\* C6, before the first successful scrape: the empty Graph while one is built
C6_WitnessEmpty ==
    \E h \in Handlers, s \in ConfiguredScopes :
        /\ pc[h] = "replied"
        /\ query[h] = s
        /\ ~atReply[h].some
        /\ worker[s] = "Assembling"
        /\ building[s].nodes # <<>>
        /\ reply[h] = EmptyGraph

\* C7: after a failed scrape cycle the scope's cached Graph is the one held
\* before the cycle, readers are answered with it, the worker is Idle and the
\* next tick can start a fetch; the worker always has a next step.
C7_FailureKeepsGraph ==
    \A s \in ConfiguredScopes :
        /\ scrapes[s] = "failed" =>
              /\ cached[s] = before[s]
              /\ worker[s] = "Idle"
              /\ ENABLED Tick(s)
              /\ \A h \in Handlers :
                    (pc[h] = "sent" /\ query[h] = s) => CachedGraphOf(s) = before[s]
        /\ ENABLED (Tick(s) \/ FetchFailed(s) \/ Fetched(s) \/ Publish(s))

C7_Witness ==
    \E s \in ConfiguredScopes, h \in Handlers :
        /\ scrapes[s] = "failed"
        /\ before[s] # EmptyGraph
        /\ Len(cached[s].edges) > 0
        /\ pc[h] = "sent"
        /\ query[h] = s

\* whether the allow-list in force rejects query q
Disallowed(q) == scope_filter.some /\ q \notin scope_filter.val

\* C8: a query whose scope fails validation is answered 400, one whose valid
\* scope has no scraper 404; neither reaches a scraper nor carries a Graph,
\* and a 200 answer with a Graph is given only for a valid, configured scope.
C8_ClientErrors ==
    \A h \in Handlers :
        /\ pc[h] = "done" =>
              /\ Disallowed(query[h]) => response[h] = [status |-> 400]
              /\ (~Disallowed(query[h]) /\ query[h] \notin ConfiguredScopes)
                     => response[h] = [status |-> 404]
              /\ "graph" \in DOMAIN response[h] =>
                     /\ response[h].status = 200
                     /\ ~Disallowed(query[h])
                     /\ query[h] \in ConfiguredScopes
        /\ pc[h] \in {"sent", "replied"} =>
              /\ ~Disallowed(query[h])
              /\ query[h] \in ConfiguredScopes

C8_Witness ==
    /\ scope_filter.some
    /\ pc = [h \in Handlers |-> "done"]
    /\ response["h1"] = [status |-> 400]
    /\ response["h2"].status = 200
    /\ response["h2"].graph # EmptyGraph

\* C8, the 404 case: a valid scope without a scraper
C8_WitnessNotFound ==
    /\ \E h \in Handlers :
          /\ pc[h] = "done"
          /\ ~Disallowed(query[h])
          /\ response[h] = [status |-> 404]

====
